---- MODULE Spec2Model ----
(***************************************************************************)
(* Model of the renderer-side event bridge                                 *)
(* (packages/electron-chrome-extensions/src/renderer/event.ts) and of the  *)
(* shell's window/tab controller (class Browser, class TabbedBrowserWindow)*)
(***************************************************************************)
EXTENDS Integers, Sequences, FiniteSets, TLC

\* ------------------------------------------------------------------------
\* Bounds and input domains
\* ------------------------------------------------------------------------
MaxAdds == 2

Names == {"x", "y"}
Callbacks == {"A", "B"}
ExtensionIds == {"ext1"}
Args == {"a1", "a2"}

\* ------------------------------------------------------------------------
\* Event bridge state
\* ------------------------------------------------------------------------
VARIABLES
  listenerMap,    \* Map<string, Function[]>: a function whose domain is the set of keys
  ipcListeners,   \* ipcRenderer's listener arrays, one per channel
  wire,           \* messages passed to ipcRenderer.send, in order
  subscribed,     \* history: per name and callback, add calls not yet matched by a remove call
  nAdds,          \* history: number of addExtensionListener calls
  last            \* the most recent call and its outcome

bridgeVars == <<listenerMap, ipcListeners, wire, subscribed, nAdds, last>>

\* ------------------------------------------------------------------------
\* Window/tab controller: input domains
\* ------------------------------------------------------------------------
MaxWindows == 2
MaxTabs == 2

Urls == {"https://example.test"}
WindowIdInputs == 1..MaxWindows
Undefined == "undefined"
Platforms == {"darwin", "linux"}

\* details objects with optional fields: a field that is absent is not in the domain
OptField(name, values) == {<<>>} \cup {[f \in {name} |-> v] : v \in values}
CreateTabDetails ==
  {w @@ u @@ a : w \in OptField("windowId", WindowIdInputs),
                 u \in OptField("url", Urls),
                 a \in OptField("active", BOOLEAN)}
CreateWindowDetails == OptField("url", Urls)

\* JavaScript truthiness of an optional string field
Truthy(details, field) == field \in DOMAIN details /\ details[field] # ""

\* ------------------------------------------------------------------------
\* Window/tab controller: state
\* ------------------------------------------------------------------------
VARIABLES
  phase,             \* position of Browser.init()
  webuiExtensionId,  \* module-level variable, undefined until the UI extension is loaded
  browserWindows,    \* every BrowserWindow created so far; a window's id is its index
  windows,           \* Browser.windows: the TabbedBrowserWindow objects, in insertion order
  tabUrl,            \* every tab created so far, by id: the URL last passed to loadURL
  microtasks,        \* queued microtasks: ids of the windows awaiting their initial tab
  popup,             \* Browser.popup
  platform,          \* process.platform
  quits,             \* number of app.quit() calls made by Browser.destroy()
  cmd                \* the most recent controller operation and its outcome

browserVars ==
  <<phase, webuiExtensionId, browserWindows, windows, tabUrl, microtasks, popup,
    platform, quits, cmd>>
\* loadExtensions: the directory listing it read, where it stands, the
\* extension paths it found, the loads it attempted and its results
MaxDirs == 2
VARIABLES extensionsDir, loadState, toLoad, attempted, results
loadVars == <<extensionsDir, loadState, toLoad, attempted, results>>

vars == <<bridgeVars, browserVars, loadVars>>

\* ------------------------------------------------------------------------
\* Event bridge: operations
\* ------------------------------------------------------------------------
formatIpcName(name) == "crx-" \o name

Channels == {formatIpcName(n) : n \in Names}

\* A function value as the event emitter sees it: the callback itself, or the
\* anonymous closure that addExtensionListener wraps around it.
RawFn(cb) == [wrapped |-> FALSE, fn |-> cb]
WrapperFn(cb) == [wrapped |-> TRUE, fn |-> cb]

\* Array.prototype.findIndex with (element) => element == callback; 0 stands for -1.
findIndex(listeners, callback) ==
  IF \E i \in 1..Len(listeners) : listeners[i] = callback
  THEN CHOOSE i \in 1..Len(listeners) :
         /\ listeners[i] = callback
         /\ \A j \in 1..(i - 1) : listeners[j] # callback
  ELSE 0

\* Array.prototype.splice(index, 1)
splice(listeners, index) ==
  SubSeq(listeners, 1, index - 1) \o SubSeq(listeners, index + 1, Len(listeners))

\* EventEmitter.removeListener: drops the most recently added listener that is
\* the given function; listeners that are other functions stay.
ipcRemoveListener(ls, f) ==
  IF \E i \in 1..Len(ls) : ls[i] = f
  THEN LET k == CHOOSE i \in 1..Len(ls) :
                  /\ ls[i] = f
                  /\ \A j \in (i + 1)..Len(ls) : ls[j] # f
       IN splice(ls, k)
  ELSE ls

\* EventEmitter.emit: listeners run in order of attachment; an exception thrown
\* by a listener leaves emit, so the listeners after it do not run.
emitCalls(ls, throwers) ==
  IF \E i \in 1..Len(ls) : ls[i].fn \in throwers
  THEN SubSeq(ls, 1, CHOOSE i \in 1..Len(ls) :
                       /\ ls[i].fn \in throwers
                       /\ \A j \in 1..(i - 1) : ls[j].fn \notin throwers)
  ELSE ls

AddMsg(extensionId, name) ==
  [channel |-> "crx-add-listener", extensionId |-> extensionId, name |-> name]
RemoveMsg(extensionId, name) ==
  [channel |-> "crx-remove-listener", extensionId |-> extensionId, name |-> name]

hasExtensionListener(extensionId, name, callback) ==
  IF name \in DOMAIN listenerMap
  THEN findIndex(listenerMap[name], callback) > 0
  ELSE FALSE

BridgeInit ==
  /\ listenerMap = <<>>
  /\ ipcListeners = [ch \in Channels |-> <<>>]
  /\ wire = <<>>
  /\ subscribed = [n \in Names |-> [c \in Callbacks |-> 0]]
  /\ nAdds = 0
  /\ last = [op |-> "none"]

addExtensionListener(extensionId, name, callback) ==
  /\ nAdds < MaxAdds
  /\ LET fresh == name \notin DOMAIN listenerMap
         listeners == IF fresh THEN <<>> ELSE listenerMap[name]
     IN /\ wire' = IF fresh THEN Append(wire, AddMsg(extensionId, name)) ELSE wire
        /\ listenerMap' = [n \in (DOMAIN listenerMap) \cup {name} |->
                             IF n = name THEN Append(listeners, callback)
                             ELSE listenerMap[n]]
  /\ ipcListeners' = [ipcListeners EXCEPT ![formatIpcName(name)] =
                         Append(@, WrapperFn(callback))]
  /\ subscribed' = [subscribed EXCEPT ![name][callback] = @ + 1]
  /\ nAdds' = nAdds + 1
  /\ last' = [op |-> "add"]
  /\ UNCHANGED <<browserVars, loadVars>>

\* listeners.length == 0
lengthIsZero(listeners) == Len(listeners) = 0

listenerMapDelete_keep(map, name) == map

\* listenerMap.delete(name)
listenerMapDelete(map, name) == [n \in (DOMAIN map) \ {name} |-> map[n]]

removeExtensionListener(extensionId, name, callback) ==
  /\ IF name \in DOMAIN listenerMap
     THEN LET listeners == listenerMap[name]
              callbackIndex == findIndex(listeners, callback)
              spliced == IF callbackIndex > 0 THEN splice(listeners, callbackIndex)
                         ELSE listeners
          IN /\ listenerMap' = listenerMapDelete(listenerMap, name)
             /\ wire' = IF lengthIsZero(spliced)
                        THEN Append(wire, RemoveMsg(extensionId, name))
                        ELSE wire
     ELSE UNCHANGED <<listenerMap, wire>>
  /\ ipcListeners' = [ipcListeners EXCEPT ![formatIpcName(name)] =
                         ipcRemoveListener(@, RawFn(callback))]
  /\ subscribed' = [subscribed EXCEPT ![name][callback] = IF @ > 0 THEN @ - 1 ELSE 0]
  /\ last' = [op |-> "remove"]
  /\ UNCHANGED nAdds
  /\ UNCHANGED <<browserVars, loadVars>>

HasListener(extensionId, name, callback) ==
  /\ last' = [op |-> "has", result |-> hasExtensionListener(extensionId, name, callback)]
  /\ UNCHANGED <<listenerMap, ipcListeners, wire, subscribed, nAdds>>
  /\ UNCHANGED <<browserVars, loadVars>>

\* The host delivers one occurrence of crx-<name>; throwers are the callbacks
\* that raise an exception when they handle it.
Dispatch(name, arg, throwers) ==
  /\ LET calls == emitCalls(ipcListeners[formatIpcName(name)], throwers)
     IN last' = [op |-> "dispatch",
                 calls |-> [i \in 1..Len(calls) |-> [cb |-> calls[i].fn, arg |-> arg]]]
  /\ UNCHANGED <<listenerMap, ipcListeners, wire, subscribed, nAdds>>
  /\ UNCHANGED <<browserVars, loadVars>>

BridgeNext ==
  \/ \E e \in ExtensionIds, n \in Names, c \in Callbacks : addExtensionListener(e, n, c)
  \/ \E e \in ExtensionIds, n \in Names, c \in Callbacks : removeExtensionListener(e, n, c)
  \/ \E e \in ExtensionIds, n \in Names, c \in Callbacks : HasListener(e, n, c)
  \/ \E n \in Names, a \in Args, t \in SUBSET Callbacks : Dispatch(n, a, t)

NoTab == 0
NoPopup == [browserWindow |-> 0, parent |-> 0]

\* path.join('chrome-extension://', id, file): join and normalise, which
\* collapses the doubled slash; a leading slash of file does not double either.
pathJoin(id, file) == "chrome-extension:/" \o id \o "/" \o file

\* --- Tabs collection (./tabs) -------------------------------------------
TabsNew == [tabList |-> <<>>, selected |-> NoTab]

TabsHas(tabs, id) == \E i \in 1..Len(tabs.tabList) : tabs.tabList[i] = id

TabsSelect(tabs, id) ==
  IF TabsHas(tabs, id) THEN [tabs EXCEPT !.selected = id] ELSE tabs

TabsCreate(tabs, id) ==
  [tabList |-> Append(tabs.tabList, id),
   selected |-> IF tabs.selected = NoTab THEN id ELSE tabs.selected]

TabsRemove(tabs, id) ==
  IF TabsHas(tabs, id)
  THEN LET i == CHOOSE k \in 1..Len(tabs.tabList) : tabs.tabList[k] = id
           rest == SubSeq(tabs.tabList, 1, i - 1) \o
                   SubSeq(tabs.tabList, i + 1, Len(tabs.tabList))
           next == IF i <= Len(rest) THEN rest[i]
                   ELSE IF i - 1 >= 1 THEN rest[i - 1] ELSE NoTab
       IN [tabList |-> rest,
           selected |-> IF tabs.selected = id THEN next ELSE tabs.selected]
  ELSE tabs

TabsDestroy(tabs) == [tabList |-> <<>>, selected |-> NoTab]

\* --- class TabbedBrowserWindow ------------------------------------------
TabbedBrowserWindow_eager(id, options) ==
  [id |-> id, options |-> options, tabs |-> TabsCreate(TabsNew, Len(tabUrl) + 1)]

\* The object the constructor builds for BrowserWindow id and options.
TabbedBrowserWindow(id, options) ==
  [id |-> id, options |-> options, tabs |-> TabsNew]

\* onTabCreated: the URL a tab of this window is sent to when it is created
onTabCreated(win) ==
  IF Truthy(win.options, "initialUrl") THEN win.options.initialUrl ELSE ""

\* --- class Browser ------------------------------------------------------
\* Array.prototype.find over this.windows by id; 0 stands for undefined.
findWindowIndex(id) ==
  IF \E i \in 1..Len(windows) : windows[i].id = id
  THEN CHOOSE i \in 1..Len(windows) :
         /\ windows[i].id = id
         /\ \A j \in 1..(i - 1) : windows[j].id # id
  ELSE 0

isDestroyed(bw) == browserWindows[bw].destroyed

getAllWindows == {b \in 1..Len(browserWindows) : ~browserWindows[b].destroyed}

getWindowFromBrowserWindow_first(bw) ==
  IF ~isDestroyed(bw)
  THEN IF findWindowIndex(bw) # 0 THEN findWindowIndex(bw)
       ELSE IF windows # <<>> THEN 1 ELSE 0
  ELSE 0

\* getWindowFromBrowserWindow: index into this.windows, 0 for null / undefined
getWindowFromBrowserWindow(bw) ==
  IF ~isDestroyed(bw) THEN findWindowIndex(bw) ELSE 0

\* A content surface (webContents): its getType() and what it belongs to, the
\* BrowserWindow for type window, the tab for an embedded view.
WebContents(type, ref) == [type |-> type, ref |-> ref]

\* tab.getOwnerBrowserWindow(): the BrowserWindow hosting the tab's view, 0 for null
getOwnerBrowserWindow(tab) ==
  IF \E i \in 1..Len(windows) : TabsHas(windows[i].tabs, tab)
  THEN windows[CHOOSE i \in 1..Len(windows) : TabsHas(windows[i].tabs, tab)].id
  ELSE 0

\* getParentWindowOfTab; focused is what BrowserWindow.getFocusedWindow()
\* returns at the time of the call, 0 for null
getParentWindowOfTab(tab, focused) ==
  CASE tab.type = "window" -> [threw |-> FALSE, window |-> tab.ref]
    [] tab.type \in {"browserView", "webview"} ->
         [threw |-> FALSE, window |-> getOwnerBrowserWindow(tab.ref)]
    [] tab.type = "backgroundPage" -> [threw |-> FALSE, window |-> focused]
    [] OTHER -> [threw |-> TRUE, window |-> 0]

\* this.popup && webContents === this.popup.browserWindow?.webContents
isPopupWebContents(webContents) ==
  /\ popup # NoPopup
  /\ webContents = WebContents("window", popup.browserWindow)

getWindowFromWebContents_noPopup(webContents, focused) ==
  LET parent == getParentWindowOfTab(webContents, focused) IN
  IF parent.threw THEN [threw |-> TRUE, popupBranch |-> FALSE, win |-> 0]
  ELSE [threw |-> FALSE, popupBranch |-> FALSE,
        win |-> IF parent.window # 0 THEN getWindowFromBrowserWindow(parent.window) ELSE 0]

\* getWindowFromWebContents: win is the index into this.windows, 0 for null / undefined
getWindowFromWebContents(webContents, focused) ==
  IF isPopupWebContents(webContents)
  THEN [threw |-> FALSE, popupBranch |-> TRUE,
        win |-> IF popup.parent # 0 THEN getWindowFromBrowserWindow(popup.parent) ELSE 0]
  ELSE LET parent == getParentWindowOfTab(webContents, focused) IN
       IF parent.threw THEN [threw |-> TRUE, popupBranch |-> FALSE, win |-> 0]
       ELSE [threw |-> FALSE, popupBranch |-> FALSE,
             win |-> IF parent.window # 0 THEN getWindowFromBrowserWindow(parent.window)
                     ELSE 0]

\* The live content surfaces, each with a possible answer of
\* BrowserWindow.getFocusedWindow(); only a background page's lookup reads it.
SurfaceInputs ==
  {<<WebContents("window", b), 0>> : b \in getAllWindows}
  \cup {<<WebContents("browserView", t), 0>> :
          t \in {u \in 1..Len(tabUrl) : getOwnerBrowserWindow(u) \in getAllWindows}}
  \cup {<<WebContents("backgroundPage", 0), f>> : f \in {0} \cup getAllWindows}
  \cup {<<WebContents("remote", 0), 0>>}

Dispositions == {"foreground-tab", "background-tab", "new-window", "default"}

BrowserInit ==
  /\ phase = "constructed"
  /\ webuiExtensionId = Undefined
  /\ browserWindows = <<>>
  /\ windows = <<>>
  /\ tabUrl = <<>>
  /\ microtasks = <<>>
  /\ popup = NoPopup
  /\ platform \in Platforms
  /\ quits = 0
  /\ cmd = [op |-> "none"]

\* Browser.createWindow(options): builds the TabbedBrowserWindow, whose
\* constructor queues the initial-tab microtask, and pushes it on this.windows.
\* Reached only once webuiExtensionId is recorded (see the callers).
\* The process runs until app.quit()
AppRunning == quits = 0

liveWindows(bws) == {b \in 1..Len(bws) : ~bws[b].destroyed}

onWindowAllClosed_anyPlatform(before, after) ==
  IF liveWindows(before) # {} /\ liveWindows(after) = {} THEN 1 ELSE 0

\* app 'window-all-closed', emitted when the last open BrowserWindow closes:
\* the number of Browser.destroy() calls the handler makes
onWindowAllClosed(before, after) ==
  IF liveWindows(before) # {} /\ liveWindows(after) = {}
  THEN IF platform # "darwin" THEN 1 ELSE 0
  ELSE 0

createWindow(options) ==
  LET id == Len(browserWindows) + 1 IN
  /\ browserWindows' = Append(browserWindows, [destroyed |-> FALSE])
  /\ windows' = Append(windows, TabbedBrowserWindow(id, options))
  /\ microtasks' = Append(microtasks, id)

CanCreateWindow == Len(browserWindows) < MaxWindows /\ Len(tabUrl) < MaxTabs

\* createInitialWindow: path.join throws a TypeError for an undefined segment
createInitialWindow(op) ==
  IF webuiExtensionId = Undefined
  THEN /\ cmd' = [op |-> op, threw |-> TRUE]
       /\ UNCHANGED <<browserWindows, windows, microtasks>>
  ELSE /\ CanCreateWindow
       /\ createWindow([initialUrl |-> pathJoin(webuiExtensionId, "new-tab.html")])
       /\ cmd' = [op |-> op, threw |-> FALSE]

\* app.whenReady() resolves: init() runs up to its first await
Ready ==
  /\ AppRunning
  /\ phase = "constructed"
  /\ phase' = "awaitWebui"
  /\ cmd' = [op |-> "ready", threw |-> FALSE]
  /\ UNCHANGED <<webuiExtensionId, browserWindows, windows, tabUrl, microtasks, popup>>
  /\ UNCHANGED <<bridgeVars, loadVars, platform, quits>>

\* session.loadExtension(PATHS.WEBUI) settles
WebuiLoaded(ok) ==
  /\ AppRunning
  /\ phase = "awaitWebui"
  /\ microtasks = <<>>
  /\ phase' = IF ok THEN "awaitExtensions" ELSE "failed"
  /\ webuiExtensionId' = IF ok THEN "webui" ELSE webuiExtensionId
  /\ cmd' = [op |-> "webuiLoaded", threw |-> ~ok]
  /\ UNCHANGED <<browserWindows, windows, tabUrl, microtasks, popup>>
  /\ UNCHANGED <<bridgeVars, loadVars, platform, quits>>

\* ---- loadExtensions ----

IsDigit(c) == c \in {"0", "1", "2", "3", "4", "5", "6", "7", "8", "9"}

\* s from position i on is exactly k groups \d+\.?
RECURSIVE MatchGroups(_, _, _)
MatchGroups(s, i, k) ==
  IF k = 0 THEN i = Len(s) + 1
  ELSE \E j \in i..Len(s) :
         /\ \A m \in i..j : IsDigit(s[m])
         /\ \/ MatchGroups(s, j + 1, k - 1)
            \/ /\ j + 1 <= Len(s)
               /\ s[j + 1] = "."
               /\ MatchGroups(s, j + 2, k - 1)

\* name.match(/^(?:\d+\.?){2,4}_\d+$/), a name being its characters
VERSION_REGEX(name) ==
  \E u \in 1..Len(name) :
    /\ name[u] = "_"
    /\ u < Len(name)
    /\ \A m \in (u + 1)..Len(name) : IsDigit(name[m])
    /\ \E k \in 2..4 : MatchGroups(SubSeq(name, 1, u - 1), 1, k)

SubEntry(name, isDirectory, manifest) ==
  [name |-> name, isDirectory |-> isDirectory, manifest |-> manifest]
DirEntry(isDirectory, manifest, subs) ==
  [isDirectory |-> isDirectory, manifest |-> manifest, subs |-> subs]

\* The children of the extensions directory the scan is run on: a plain
\* file, a directory with manifest.json, directories with a version
\* subdirectory with and without manifest.json, an empty directory and a
\* directory whose only subdirectory has no version name.
EntryKinds ==
  { DirEntry(FALSE, FALSE, <<>>),
    DirEntry(TRUE, TRUE, <<>>),
    DirEntry(TRUE, FALSE, << SubEntry(<<"t", "m", "p">>, TRUE, FALSE),
                             SubEntry(<<"1", ".", "0", "_", "0">>, TRUE, TRUE) >>),
    DirEntry(TRUE, FALSE, << SubEntry(<<"1", ".", "0", "_", "0">>, TRUE, FALSE) >>),
    DirEntry(TRUE, FALSE, <<>>),
    DirEntry(TRUE, FALSE, << SubEntry(<<"1", "_", "0">>, TRUE, TRUE) >>) }

Listings == UNION {[1..n -> EntryKinds] : n \in 0..MaxDirs}

NoPath == <<>>

\* manifestExists, the path being <<i>> for child i and <<i, j>> for its
\* subdirectory j
manifestExists(listing, dirPath) ==
  IF dirPath = NoPath THEN FALSE
  ELSE IF Len(dirPath) = 1 THEN listing[dirPath[1]].manifest
  ELSE listing[dirPath[1]].subs[dirPath[2]].manifest

\* extSubDirs.find(dir => dir.isDirectory() && dir.name.match(VERSION_REGEX)),
\* the index of the first match, 0 for undefined
findVersionDir(extSubDirs) ==
  LET hits == {j \in 1..Len(extSubDirs) :
                 extSubDirs[j].isDirectory /\ VERSION_REGEX(extSubDirs[j].name)}
  IN IF hits = {} THEN 0 ELSE CHOOSE j \in hits : \A h \in hits : j <= h

\* The callback mapped over the subdirectories: path.join(extPath, versionDir)
\* throws a TypeError when versionDir is undefined.
scanDirectory(listing, i) ==
  IF manifestExists(listing, <<i>>) THEN [threw |-> FALSE, path |-> <<i>>]
  ELSE LET versionDir == findVersionDir(listing[i].subs) IN
       IF versionDir = 0 THEN [threw |-> TRUE, path |-> NoPath]
       ELSE IF manifestExists(listing, <<i, versionDir>>)
            THEN [threw |-> FALSE, path |-> <<i, versionDir>>]
            ELSE [threw |-> FALSE, path |-> NoPath]

RECURSIVE filterBoolean(_)
filterBoolean(paths) ==
  IF paths = <<>> THEN <<>>
  ELSE IF Head(paths) = NoPath THEN filterBoolean(Tail(paths))
       ELSE <<Head(paths)>> \o filterBoolean(Tail(paths))

RECURSIVE filterDirectories(_, _)
filterDirectories(listing, i) ==
  IF i > Len(listing) THEN <<>>
  ELSE IF listing[i].isDirectory THEN <<i>> \o filterDirectories(listing, i + 1)
       ELSE filterDirectories(listing, i + 1)

\* loadExtensions up to the end of Promise.all: one rejection rejects the
\* whole call
ScanExtensions(listing) ==
  /\ AppRunning
  /\ phase = "awaitExtensions"
  /\ microtasks = <<>>
  /\ loadState = "idle"
  /\ extensionsDir' = listing
  /\ LET dirs == filterDirectories(listing, 1)
         found == [k \in 1..Len(dirs) |-> scanDirectory(listing, dirs[k])]
     IN IF \E k \in 1..Len(dirs) : found[k].threw
        THEN /\ loadState' = "rejected"
             /\ toLoad' = <<>>
        ELSE /\ loadState' = "loading"
             /\ toLoad' = filterBoolean([k \in 1..Len(dirs) |-> found[k].path])
  /\ UNCHANGED <<attempted, results>>
  /\ UNCHANGED <<bridgeVars, browserVars>>

\* One turn of the for loop: session.loadExtension(extPath) settles
LoadExtension(ok) ==
  /\ AppRunning
  /\ phase = "awaitExtensions"
  /\ loadState = "loading"
  /\ Len(attempted) < Len(toLoad)
  /\ LET extPath == toLoad[Len(attempted) + 1] IN
     /\ attempted' = Append(attempted, [path |-> extPath, ok |-> ok])
     /\ results' = IF ok THEN Append(results, extPath) ELSE results
  /\ UNCHANGED <<extensionsDir, loadState, toLoad>>
  /\ UNCHANGED <<bridgeVars, browserVars>>

\* loadExtensions settles (its rejection is caught); init() goes on to
\* createInitialWindow()
UserExtensionsLoaded ==
  /\ AppRunning
  /\ phase = "awaitExtensions"
  /\ microtasks = <<>>
  /\ phase' = "running"
  /\ createInitialWindow("init")
  /\ UNCHANGED <<webuiExtensionId, tabUrl, popup>>
  /\ UNCHANGED <<bridgeVars, loadVars, platform, quits>>

\* The same step once loadExtensions has run: it returned after the last
\* turn of its loop, or it rejected.
LoadExtensionsSettled ==
  /\ \/ loadState = "rejected"
     \/ loadState = "loading" /\ Len(attempted) = Len(toLoad)
  /\ UserExtensionsLoaded

\* app 'activate'
Activate ==
  /\ AppRunning
  /\ microtasks = <<>>
  /\ getAllWindows = {}
  /\ createInitialWindow("activate")
  /\ UNCHANGED <<phase, webuiExtensionId, tabUrl, popup>>
  /\ UNCHANGED <<bridgeVars, loadVars, platform, quits>>

\* The microtask queued by the TabbedBrowserWindow constructor: this.tabs.create(),
\* which emits tab-created to onTabCreated.
InitialTab ==
  /\ AppRunning
  /\ microtasks # <<>>
  /\ LET i == findWindowIndex(Head(microtasks))
         t == Len(tabUrl) + 1
     IN /\ windows' = [windows EXCEPT ![i].tabs = TabsCreate(@, t)]
        /\ tabUrl' = Append(tabUrl, onTabCreated(windows[i]))
        /\ cmd' = [op |-> "initialTab", threw |-> FALSE]
  /\ microtasks' = Tail(microtasks)
  /\ UNCHANGED <<phase, webuiExtensionId, browserWindows, popup>>
  /\ UNCHANGED <<bridgeVars, loadVars, platform, quits>>

\* The extension subsystem calls the provider only while an extension is
\* loaded, and a call is a task of its own: no microtask is pending.
ProviderCallable ==
  /\ AppRunning
  /\ phase \in {"awaitExtensions", "running"}
  /\ microtasks = <<>>

createTabWindow_first(details) ==
  IF "windowId" \in DOMAIN details /\ findWindowIndex(details.windowId) # 0
  THEN findWindowIndex(details.windowId)
  ELSE IF windows # <<>> THEN 1 ELSE 0

\* createTab's lookup: typeof details.windowId === 'number' && this.windows.find(...)
createTabWindow(details) ==
  IF "windowId" \in DOMAIN details THEN findWindowIndex(details.windowId) ELSE 0

createTabActive_false(details) ==
  IF "active" \in DOMAIN details THEN details.active ELSE FALSE

\* typeof details.active === 'boolean' ? details.active : true
createTabActive(details) ==
  IF "active" \in DOMAIN details THEN details.active ELSE TRUE

createTab(details) ==
  /\ ProviderCallable
  /\ LET i == createTabWindow(details) IN
     IF i = 0
     THEN /\ cmd' = [op |-> "createTab", win |-> i, threw |-> TRUE]
          /\ UNCHANGED <<windows, tabUrl>>
     ELSE \E outcome \in (IF isDestroyed(windows[i].id) THEN {"throws", "creates"}
                          ELSE {"creates"}) :
            IF outcome = "throws"
            THEN /\ cmd' = [op |-> "createTab", win |-> i, threw |-> TRUE]
                 /\ UNCHANGED <<windows, tabUrl>>
            ELSE LET t == Len(tabUrl) + 1
                     created == TabsCreate(windows[i].tabs, t)
                     url == IF Truthy(details, "url") THEN details.url
                            ELSE onTabCreated(windows[i])
                 IN /\ Len(tabUrl) < MaxTabs
                    /\ windows' = [windows EXCEPT ![i].tabs =
                                     IF createTabActive(details) THEN TabsSelect(created, t)
                                     ELSE created]
                    /\ tabUrl' = Append(tabUrl, url)
                    /\ cmd' = [op |-> "createTab", win |-> i, threw |-> FALSE,
                               result |-> <<t, windows[i].id>>]
  /\ UNCHANGED <<phase, webuiExtensionId, browserWindows, microtasks, popup>>
  /\ UNCHANGED <<bridgeVars, loadVars, platform, quits>>

selectTab(tab, browserWindow) ==
  /\ ProviderCallable
  /\ LET i == getWindowFromBrowserWindow(browserWindow) IN
     windows' = IF i = 0 THEN windows
                ELSE [windows EXCEPT ![i].tabs = TabsSelect(@, tab)]
  /\ cmd' = [op |-> "selectTab", browserWindow |-> browserWindow, threw |-> FALSE]
  /\ UNCHANGED <<phase, webuiExtensionId, browserWindows, tabUrl, microtasks, popup>>
  /\ UNCHANGED <<bridgeVars, loadVars, platform, quits>>

removeTab(tab, browserWindow) ==
  /\ ProviderCallable
  /\ LET i == getWindowFromBrowserWindow(browserWindow) IN
     windows' = IF i = 0 THEN windows
                ELSE [windows EXCEPT ![i].tabs = TabsRemove(@, tab)]
  /\ cmd' = [op |-> "removeTab", browserWindow |-> browserWindow, threw |-> FALSE]
  /\ UNCHANGED <<phase, webuiExtensionId, browserWindows, tabUrl, microtasks, popup>>
  /\ UNCHANGED <<bridgeVars, loadVars, platform, quits>>

\* The provider's createWindow: details.url || newTabUrl, where no binding of
\* newTabUrl is in scope, so that evaluating it raises a ReferenceError.
providerCreateWindow(details) ==
  /\ ProviderCallable
  /\ IF Truthy(details, "url")
     THEN /\ CanCreateWindow
          /\ createWindow([initialUrl |-> details.url])
          /\ cmd' = [op |-> "createWindow", details |-> details, threw |-> FALSE,
                     result |-> Len(browserWindows) + 1]
     ELSE /\ cmd' = [op |-> "createWindow", details |-> details, threw |-> TRUE]
          /\ UNCHANGED <<browserWindows, windows, microtasks>>
  /\ UNCHANGED <<phase, webuiExtensionId, tabUrl, popup>>
  /\ UNCHANGED <<bridgeVars, loadVars, platform, quits>>

\* TabbedBrowserWindow.destroy(): this.tabs.destroy(); this.window.destroy()
removeWindow(browserWindow) ==
  /\ ProviderCallable
  /\ LET i == getWindowFromBrowserWindow(browserWindow) IN
     IF i = 0
     THEN UNCHANGED <<windows, browserWindows, quits>>
     ELSE /\ windows' = [windows EXCEPT ![i].tabs = TabsDestroy(@)]
          /\ browserWindows' = [browserWindows EXCEPT ![windows[i].id].destroyed = TRUE]
          /\ quits' = quits + onWindowAllClosed(browserWindows, browserWindows')
  /\ cmd' = [op |-> "removeWindow", browserWindow |-> browserWindow, threw |-> FALSE]
  /\ UNCHANGED <<phase, webuiExtensionId, tabUrl, microtasks, popup>>
  /\ UNCHANGED <<bridgeVars, loadVars, platform>>

\* The user, or the extension subsystem for a popup, closes a BrowserWindow.
CloseWindow(browserWindow) ==
  /\ AppRunning
  /\ microtasks = <<>>
  /\ browserWindow \in getAllWindows
  /\ browserWindows' = [browserWindows EXCEPT ![browserWindow].destroyed = TRUE]
  /\ quits' = quits + onWindowAllClosed(browserWindows, browserWindows')
  /\ cmd' = [op |-> "close", browserWindow |-> browserWindow, threw |-> FALSE]
  /\ UNCHANGED <<phase, webuiExtensionId, windows, tabUrl, microtasks, popup>>
  /\ UNCHANGED <<bridgeVars, loadVars, platform>>

\* 'browser-action-popup-created': the extension subsystem has opened a popup
\* in a BrowserWindow of its own, on behalf of the window parent.
BrowserActionPopupCreated(parent) ==
  /\ ProviderCallable
  /\ Len(browserWindows) < MaxWindows
  /\ parent \in getAllWindows
  /\ findWindowIndex(parent) # 0
  /\ browserWindows' = Append(browserWindows, [destroyed |-> FALSE])
  /\ popup' = [browserWindow |-> Len(browserWindows) + 1, parent |-> parent]
  /\ cmd' = [op |-> "popupCreated", threw |-> FALSE]
  /\ UNCHANGED <<phase, webuiExtensionId, windows, tabUrl, microtasks>>
  /\ UNCHANGED <<bridgeVars, loadVars, platform, quits>>

\* A collaborator (the extension subsystem, the menu) asks for the window of a
\* content surface.
GetWindowFromWebContents(webContents, focused) ==
  /\ AppRunning
  /\ microtasks = <<>>
  /\ LET r == getWindowFromWebContents(webContents, focused) IN
     cmd' = [op |-> "getWindowFromWebContents", popupBranch |-> r.popupBranch,
             threw |-> r.threw, result |-> r.win]
  /\ UNCHANGED <<phase, webuiExtensionId, browserWindows, windows, tabUrl, microtasks, popup>>
  /\ UNCHANGED <<bridgeVars, loadVars, platform, quits>>

\* The handler installed by setWindowOpenHandler: for the tab and new-window
\* dispositions the createWindow callback runs; otherwise { action: 'allow' }
\* lets the host open a BrowserWindow of its own.
WindowOpen(webContents, focused, disposition, url) ==
  /\ AppRunning
  /\ microtasks = <<>>
  /\ IF disposition \in {"foreground-tab", "background-tab", "new-window"}
     THEN LET r == getWindowFromWebContents(webContents, focused) IN
          IF r.threw \/ r.win = 0
          THEN /\ cmd' = [op |-> "windowOpen", threw |-> TRUE, result |-> NoTab]
               /\ UNCHANGED <<windows, tabUrl, browserWindows>>
          ELSE LET t == Len(tabUrl) + 1 IN
               /\ Len(tabUrl) < MaxTabs
               /\ windows' = [windows EXCEPT ![r.win].tabs = TabsCreate(@, t)]
               /\ tabUrl' = Append(tabUrl, url)
               /\ cmd' = [op |-> "windowOpen", threw |-> FALSE, result |-> t]
               /\ UNCHANGED browserWindows
     ELSE /\ Len(browserWindows) < MaxWindows
          /\ browserWindows' = Append(browserWindows, [destroyed |-> FALSE])
          /\ cmd' = [op |-> "windowOpen", threw |-> FALSE, result |-> NoTab]
          /\ UNCHANGED <<windows, tabUrl>>
  /\ UNCHANGED <<phase, webuiExtensionId, microtasks, popup>>
  /\ UNCHANGED <<bridgeVars, loadVars, platform, quits>>

BrowserNext ==
  \/ Ready
  \/ \E ok \in BOOLEAN : WebuiLoaded(ok)
  \/ UserExtensionsLoaded
  \/ Activate
  \/ InitialTab
  \/ \E d \in CreateTabDetails : createTab(d)
  \/ \E t \in 1..Len(tabUrl), b \in 1..Len(browserWindows) : selectTab(t, b)
  \/ \E t \in 1..Len(tabUrl), b \in 1..Len(browserWindows) : removeTab(t, b)
  \/ \E d \in CreateWindowDetails : providerCreateWindow(d)
  \/ \E b \in 1..Len(browserWindows) : removeWindow(b)
  \/ \E b \in 1..Len(browserWindows) : CloseWindow(b)
  \/ \E p \in 1..Len(browserWindows) : BrowserActionPopupCreated(p)

\* The state after the modules are loaded and the Browser is constructed
LoadInit ==
  /\ extensionsDir = <<>>
  /\ loadState = "idle"
  /\ toLoad = <<>>
  /\ attempted = <<>>
  /\ results = <<>>

\* Startup with the steps of loadExtensions spelled out
LoadNext ==
  \/ Ready
  \/ \E ok \in BOOLEAN : WebuiLoaded(ok)
  \/ \E listing \in Listings : ScanExtensions(listing)
  \/ \E ok \in BOOLEAN : LoadExtension(ok)
  \/ LoadExtensionsSettled
  \/ InitialTab

Init == BridgeInit /\ BrowserInit /\ LoadInit

SpecBridge == Init /\ [][BridgeNext]_vars

SpecBrowser == Init /\ [][BrowserNext]_vars

\* The controller with the lookups and window-open requests that content
\* surfaces make
SurfaceNext ==
  \/ Ready
  \/ \E ok \in BOOLEAN : WebuiLoaded(ok)
  \/ UserExtensionsLoaded
  \/ Activate
  \/ InitialTab
  \/ \E d \in CreateWindowDetails : providerCreateWindow(d)
  \/ \E b \in 1..Len(browserWindows) : removeWindow(b)
  \/ \E b \in 1..Len(browserWindows) : CloseWindow(b)
  \/ \E p \in 1..Len(browserWindows) : BrowserActionPopupCreated(p)
  \/ \E in \in SurfaceInputs : GetWindowFromWebContents(in[1], in[2])
  \/ \E in \in SurfaceInputs, d \in Dispositions, u \in Urls :
       WindowOpen(in[1], in[2], d, u)

SpecSurface == Init /\ [][SurfaceNext]_vars

SpecLoad == Init /\ [][LoadNext]_vars

\* ------------------------------------------------------------------------
\* Event bridge: properties
\* ------------------------------------------------------------------------
\* crx-add-listener messages sent for name minus crx-remove-listener messages sent
Outstanding(name) ==
  Cardinality({i \in 1..Len(wire) :
                 wire[i].channel = "crx-add-listener" /\ wire[i].name = name})
  - Cardinality({i \in 1..Len(wire) :
                   wire[i].channel = "crx-remove-listener" /\ wire[i].name = name})

\* callbacks subscribed for name and not yet unsubscribed, duplicates included
LocalCount(name) ==
  Cardinality({<<c, k>> \in Callbacks \X (1..MaxAdds) : k <= subscribed[name][c]})

\* how often a dispatch invoked callback c
Invocations(calls, c) == Cardinality({i \in 1..Len(calls) : calls[i].cb = c})

\* C1: for every event name the number of outstanding host-side subscriptions
\* is 1 while the local callback count is positive and 0 otherwise.
C1_OutstandingMatchesLocalCount ==
  \A n \in Names : Outstanding(n) = IF LocalCount(n) > 0 THEN 1 ELSE 0

\* C2: removing a callback that is not registered for the name changes neither
\* the registry nor the messages sent.
C2_RemoveUnregisteredIsNoOp ==
  [][\A e \in ExtensionIds, n \in Names, c \in Callbacks :
       (removeExtensionListener(e, n, c) /\ subscribed[n][c] = 0)
         => (listenerMap' = listenerMap /\ wire' = wire)]_vars

\* C3: a dispatch of a name invokes only callbacks currently registered for it.
C3_DispatchOnlyRegistered ==
  [][\A n \in Names, a \in Args, t \in SUBSET Callbacks :
       Dispatch(n, a, t)
         => \A i \in 1..Len(last'.calls) : subscribed[n][last'.calls[i].cb] > 0]_vars

\* C4: two distinct callbacks each registered once for a name are each invoked
\* exactly once, with the dispatched argument, by one dispatch of that name.
C4_FanOutExactlyOnce ==
  [][\A n \in Names, a \in Args, t \in SUBSET Callbacks :
       Dispatch(n, a, t)
         => \A c1 \in Callbacks, c2 \in Callbacks :
              (c1 # c2 /\ subscribed[n][c1] = 1 /\ subscribed[n][c2] = 1)
                => /\ Invocations(last'.calls, c1) = 1
                   /\ Invocations(last'.calls, c2) = 1
                   /\ \A i \in 1..Len(last'.calls) : last'.calls[i].arg = a]_vars

\* C5: when a callback throws during a dispatch, every other callback
\* registered for the name is still invoked for that dispatch.
C5_DispatchIsolatesFailures ==
  [][\A n \in Names, a \in Args, t \in SUBSET Callbacks :
       (Dispatch(n, a, t) /\ \E i \in 1..Len(last'.calls) : last'.calls[i].cb \in t)
         => \A c \in Callbacks :
              subscribed[n][c] > 0 => Invocations(last'.calls, c) >= 1]_vars

\* C6: hasExtensionListener is true exactly for the callbacks that have been
\* added for the name more often than removed.
C6_HasIffRegistered ==
  \A e \in ExtensionIds, n \in Names, c \in Callbacks :
    hasExtensionListener(e, n, c) <=> subscribed[n][c] > 0

\* ------------------------------------------------------------------------
\* Window/tab controller: properties
\* ------------------------------------------------------------------------
Range(seq) == {seq[k] : k \in 1..Len(seq)}
Tracked(id) == \E i \in 1..Len(windows) : windows[i].id = id
IndexOf(id) == CHOOSE i \in 1..Len(windows) : windows[i].id = id
LiveTracked(id) ==
  /\ Tracked(id)
  /\ id \in 1..Len(browserWindows)
  /\ ~browserWindows[id].destroyed

\* C7: createTab with a windowId that matches no window in windows fails and
\* leaves windows, every tab collection and every selected tab unchanged.
C7_CreateTabUnknownWindowFails ==
  [][cmd'.op = "createTab" =>
     \A w \in WindowIdInputs :
       (/\ ~Tracked(w)
        /\ \E d \in CreateTabDetails :
             "windowId" \in DOMAIN d /\ d.windowId = w /\ createTab(d))
         => /\ cmd'.threw
            /\ windows' = windows
            /\ tabUrl' = tabUrl
            /\ browserWindows' = browserWindows]_vars

C7_Witness ==
  /\ cmd.op = "createTab"
  /\ cmd.win = 0
  /\ cmd.threw
  /\ \E i \in 1..Len(windows) :
       /\ ~browserWindows[windows[i].id].destroyed
       /\ windows[i].tabs.tabList # <<>>

\* C8: createTab with the id of an existing window W and a URL U creates
\* exactly one tab, in W only, navigated to U, selected unless active is false,
\* and returns the tab and W.
C8_CreateTabInWindow ==
  [][cmd'.op = "createTab" =>
     \A d \in CreateTabDetails :
       (/\ "windowId" \in DOMAIN d
        /\ "url" \in DOMAIN d
        /\ LiveTracked(d.windowId)
        /\ createTab(d))
         => LET i == IndexOf(d.windowId)
                t == Len(tabUrl) + 1
            IN /\ ~cmd'.threw
               /\ cmd'.result = <<t, d.windowId>>
               /\ tabUrl' = Append(tabUrl, d.url)
               /\ Len(windows') = Len(windows)
               /\ windows'[i].tabs.tabList = Append(windows[i].tabs.tabList, t)
               /\ \A j \in 1..Len(windows) : j # i => windows'[j] = windows[j]
               /\ browserWindows' = browserWindows
               /\ ("active" \notin DOMAIN d \/ d.active)
                    => windows'[i].tabs.selected = t]_vars

C8_Witness ==
  /\ cmd.op = "createTab"
  /\ ~cmd.threw
  /\ LiveTracked(cmd.result[2])
  /\ LET w == windows[IndexOf(cmd.result[2])]
     IN /\ Len(w.tabs.tabList) >= 2
        /\ w.tabs.selected = cmd.result[1]
        /\ tabUrl[cmd.result[1]] \in Urls
        /\ w.options.initialUrl \notin Urls

\* C9: the provider's createWindow always appends exactly one new window to
\* windows and returns its BrowserWindow; the window's initial URL is
\* details.url when given and the UI extension's new-tab page otherwise.
C9_CreateWindowAlwaysCreates ==
  [][\A d \in CreateWindowDetails :
       providerCreateWindow(d)
         => /\ ~cmd'.threw
            /\ Len(windows') = Len(windows) + 1
            /\ SubSeq(windows', 1, Len(windows)) = windows
            /\ cmd'.result = windows'[Len(windows')].id
            /\ windows'[Len(windows')].options.initialUrl =
                 IF "url" \in DOMAIN d THEN d.url
                 ELSE pathJoin(webuiExtensionId, "new-tab.html")]_vars

\* C10: selectTab, removeTab and removeWindow for a BrowserWindow that is
\* destroyed or not tracked do not throw and change nothing.
C10_UnresolvedSurfaceIsNoOp ==
  [][cmd'.op \in {"selectTab", "removeTab", "removeWindow"} =>
     \A b \in 1..Len(browserWindows) :
       (/\ ~LiveTracked(b)
        /\ \/ removeWindow(b)
           \/ \E t \in 1..Len(tabUrl) : selectTab(t, b) \/ removeTab(t, b))
         => /\ ~cmd'.threw
            /\ windows' = windows
            /\ browserWindows' = browserWindows
            /\ tabUrl' = tabUrl]_vars

C10_Witness ==
  /\ cmd.op \in {"selectTab", "removeTab", "removeWindow"}
  /\ ~cmd.threw
  /\ ~LiveTracked(cmd.browserWindow)
  /\ \E i \in 1..Len(windows) :
       /\ ~browserWindows[windows[i].id].destroyed
       /\ windows[i].tabs.tabList # <<>>

\* C11: every window in windows is live: a destroyed window is no longer a
\* member of windows.
C11_WindowsAreLive ==
  \A i \in 1..Len(windows) : ~browserWindows[windows[i].id].destroyed

\* C19: a window pushed on windows has no tab yet, no tab is created in the
\* step that creates it, and the step that creates its initial tab finds the
\* window already in windows, still without a tab.
C19_InitialTabDeferred ==
  [][/\ Len(windows') > Len(windows)
          => /\ Len(windows') = Len(windows) + 1
             /\ windows'[Len(windows')].tabs.tabList = <<>>
             /\ tabUrl' = tabUrl
     /\ InitialTab
          => /\ Tracked(Head(microtasks))
             /\ windows[IndexOf(Head(microtasks))].tabs.tabList = <<>>
             /\ Len(windows'[IndexOf(Head(microtasks))].tabs.tabList) = 1]_vars

C19_Witness ==
  /\ cmd.op = "initialTab"
  /\ Len(windows) >= 1
  /\ Len(windows[Len(windows)].tabs.tabList) = 1
  /\ microtasks = <<>>

\* C20: a crx-remove-listener message for a name is always preceded by a
\* crx-add-listener message for that name with no other crx-remove-listener
\* for the name in between, so removals never outnumber additions.
C20_RemoveOnlyWhileSubscribed ==
  /\ \A n \in Names : Outstanding(n) >= 0
  /\ \A i \in 1..Len(wire) :
       wire[i].channel = "crx-remove-listener"
         => \E j \in 1..(i - 1) :
              /\ wire[j].channel = "crx-add-listener"
              /\ wire[j].name = wire[i].name
              /\ \A k \in (j + 1)..(i - 1) :
                   ~(wire[k].channel = "crx-remove-listener" /\ wire[k].name = wire[i].name)

C20_Witness ==
  \E i \in 1..Len(wire), j \in 1..Len(wire) :
    /\ i < j
    /\ wire[i].channel = "crx-remove-listener"
    /\ wire[j].channel = "crx-remove-listener"
    /\ wire[i].name = wire[j].name

\* C14: Browser.destroy() runs exactly when the last open window closes on a
\* platform other than darwin, and at most once; closing a window while
\* another is open, and closing windows on darwin, never runs it.
C14_TeardownOnLastWindow ==
  [][/\ quits' - quits =
          IF /\ platform # "darwin"
             /\ liveWindows(browserWindows) # {}
             /\ liveWindows(browserWindows') = {}
          THEN 1 ELSE 0
     /\ quits' <= 1]_vars

C14_Witness ==
  /\ quits = 1
  /\ platform = "linux"
  /\ Len(browserWindows) >= 2
  /\ cmd.op \in {"close", "removeWindow"}

\* C18: the ready and activate events create a window only once the UI
\* extension is loaded and the user-extension pass has finished, and no
\* window exists when the UI extension failed to load.
C18_WindowOnlyAfterStartup ==
  [][/\ ((Activate \/ UserExtensionsLoaded) /\ Len(windows') > Len(windows))
          => (webuiExtensionId # Undefined /\ phase' = "running")
     /\ phase' = "failed" => windows' = <<>>]_vars

\* The surface of the tracked popup, and the window a surface belongs to by
\* its role alone (0 when it has none).
PopupSurface == WebContents("window", popup.browserWindow)
FocusedOrFirst(focused) ==
  IF Tracked(focused) THEN focused
  ELSE IF windows # <<>> THEN windows[1].id ELSE 0
HostOf(tab) ==
  IF \E i \in 1..Len(windows) : tab \in Range(windows[i].tabs.tabList)
  THEN windows[CHOOSE i \in 1..Len(windows) : tab \in Range(windows[i].tabs.tabList)].id
  ELSE 0
TrackedIndex(id) == IF LiveTracked(id) THEN IndexOf(id) ELSE 0

\* C15: getWindowFromWebContents for a background page that is not the
\* popup resolves to the focused tracked window, or to the first window of
\* windows when none is focused; with windows non-empty the result is a
\* tracked window, never null.
C15_BackgroundPageFocusedOrFirst ==
  [][\A in \in SurfaceInputs :
       (/\ cmd'.op = "getWindowFromWebContents"
        /\ in[1].type = "backgroundPage"
        /\ GetWindowFromWebContents(in[1], in[2]))
         => /\ ~cmd'.threw
            /\ windows # <<>> => cmd'.result \in 1..Len(windows)
            /\ cmd'.result # 0 => windows[cmd'.result].id = FocusedOrFirst(in[2])]_vars

\* C16: once a popup is recorded, getWindowFromWebContents for the popup's
\* own surface returns the tracked window of the popup's parent and never
\* throws; for every other surface the result is the one its role gives.
C16_PopupResolvesToParent ==
  [][cmd'.op = "getWindowFromWebContents" =>
     \A in \in SurfaceInputs :
       GetWindowFromWebContents(in[1], in[2])
         => IF popup # NoPopup /\ in[1] = PopupSurface
            THEN /\ ~cmd'.threw
                 /\ LiveTracked(popup.parent) => cmd'.result = IndexOf(popup.parent)
            ELSE CASE in[1].type = "window" ->
                        ~cmd'.threw /\ cmd'.result = TrackedIndex(in[1].ref)
                   [] in[1].type = "browserView" ->
                        ~cmd'.threw /\ cmd'.result = TrackedIndex(HostOf(in[1].ref))
                   [] in[1].type = "backgroundPage" ->
                        ~cmd'.threw /\ cmd'.result = TrackedIndex(in[2])
                   [] OTHER -> cmd'.threw]_vars

C16_Witness ==
  /\ cmd.op = "getWindowFromWebContents"
  /\ cmd.popupBranch
  /\ popup # NoPopup
  /\ LiveTracked(popup.parent)
  /\ cmd.result = IndexOf(popup.parent)

\* The window that owns a requesting surface: the popup's parent, a window's
\* own window, an embedded view's host, the focused or first window for a
\* background page; 0 when there is none.
OwnerOf(webContents, focused) ==
  IF popup # NoPopup /\ webContents = PopupSurface THEN popup.parent
  ELSE CASE webContents.type = "window" -> webContents.ref
         [] webContents.type = "browserView" -> HostOf(webContents.ref)
         [] webContents.type = "backgroundPage" -> FocusedOrFirst(focused)
         [] OTHER -> 0

\* C17: a window-open request with disposition foreground-tab,
\* background-tab or new-window creates exactly one tab, in the window that
\* owns the requesting surface, navigated to the requested URL, and leaves
\* the set of windows and top-level surfaces as it was; any other
\* disposition creates no tab.
C17_WindowOpenCreatesTabInOwner ==
  [][\A in \in SurfaceInputs, d \in Dispositions, u \in Urls :
       (/\ cmd'.op = "windowOpen"
        /\ WindowOpen(in[1], in[2], d, u))
         => IF d \in {"foreground-tab", "background-tab", "new-window"}
            THEN LiveTracked(OwnerOf(in[1], in[2]))
                   => /\ ~cmd'.threw
                      /\ Len(tabUrl') = Len(tabUrl) + 1
                      /\ tabUrl'[Len(tabUrl')] = u
                      /\ LET o == IndexOf(OwnerOf(in[1], in[2])) IN
                         /\ Len(tabUrl') \in Range(windows'[o].tabs.tabList)
                         /\ \A i \in 1..Len(windows) :
                              i # o => windows'[i] = windows[i]
                      /\ Len(windows') = Len(windows)
                      /\ browserWindows' = browserWindows
            ELSE /\ ~cmd'.threw
                 /\ tabUrl' = tabUrl
                 /\ windows' = windows]_vars

\* A child of the extensions directory qualifies through its own
\* manifest.json or through a version-named subdirectory that has one.
HasVersionDir(entry, withManifest) ==
  \E j \in 1..Len(entry.subs) :
    /\ entry.subs[j].isDirectory
    /\ VERSION_REGEX(entry.subs[j].name)
    /\ withManifest => entry.subs[j].manifest
Qualifies(entry) ==
  entry.isDirectory /\ (entry.manifest \/ HasVersionDir(entry, TRUE))
Unqualified(entry) ==
  entry.isDirectory /\ ~entry.manifest /\ ~HasVersionDir(entry, TRUE)
QualifyingChildren(listing) ==
  {i \in 1..Len(listing) : Qualifies(listing[i])}
ChildrenOf(paths) == {paths[k][1] : k \in 1..Len(paths)}
IsIncreasing(paths) ==
  \A k \in 1..(Len(paths) - 1) : paths[k][1] < paths[k + 1][1]

\* C12: a child directory with neither a manifest.json of its own nor a
\* version-named subdirectory holding one is skipped silently: the scan does
\* not fail, the child adds nothing to the load list, and every qualifying
\* child of the same scan is on the list.
C12_UnqualifiedSilentlySkipped ==
  [][\A listing \in Listings :
       ((\E i \in 1..Len(listing) : Unqualified(listing[i]))
        /\ ScanExtensions(listing))
         => /\ loadState' # "rejected"
            /\ ChildrenOf(toLoad') = QualifyingChildren(listing)]_vars

\* C13: whichever loads fail, a load is attempted for every qualifying
\* bundle in scan order, the loaded ones are the results, startup goes on
\* and the first window is created.
C13_LoadFailuresDoNotStopStartup ==
  [][LoadExtensionsSettled
       => /\ ChildrenOf([k \in 1..Len(attempted) |-> attempted[k].path])
               = QualifyingChildren(extensionsDir)
          /\ IsIncreasing([k \in 1..Len(attempted) |-> attempted[k].path])
          /\ results = filterBoolean([k \in 1..Len(attempted) |->
                          IF attempted[k].ok THEN attempted[k].path ELSE NoPath])
          /\ phase' = "running"
          /\ Len(windows') = 1]_vars

====
